---- MODULE Spec2Model ----
(***************************************************************************)
(* Model of the grid-unification and ensemble-assembly code of             *)
(* ARA_analysis: data_loading/load_data.py, data_loading/subset_region.py, *)
(* data_loading/subset_time.py.                                            *)
(*                                                                         *)
(* The program is a library of functions over datasets.  A behaviour of    *)
(* the model is one call: the initial state holds the function called and  *)
(* its arguments (pc = "call"), the single step of the function's action   *)
(* stores what the call returns or raises in out (pc = "done").            *)
(*                                                                         *)
(* Character strings that the code inspects (file locators) are sequences  *)
(* of one-character strings, so that the code's regular expression, its    *)
(* basename and its lexicographic sort are computed, not assumed.          *)
(***************************************************************************)
EXTENDS Integers, Sequences, FiniteSets, TLC

VARIABLES pc, fn, args, out

vars == <<pc, fn, args, out>>

\* out before the call has returned.
NoResult == [status |-> "pending"]

Ok(v) == [status |-> "ok", value |-> v]

\* A raised exception: its Python class and the function that raised it.
Raise(e, origin) == [status |-> e, raised_by |-> origin]

-----------------------------------------------------------------------------
(* Character strings *)

\* The characters of the modelled locators, in ascending code-point order
\* (Python compares str values by code point).
CharOrder == <<"\n", ".", "/", "0", "1", "2", "3", "_", "c", "n", "x">>

Code(c) == CHOOSE i \in 1..Len(CharOrder) : CharOrder[i] = c

\* \d of the re module, on the modelled characters.
IsDigit(c) == c \in {"0", "1", "2", "3"}

\* s < t for two str values: the first differing character decides, a proper
\* prefix is smaller.
StrLess(s, t) ==
    \E i \in 1..(Len(s) + 1) :
        /\ \A j \in 1..(i - 1) : j <= Len(t) /\ s[j] = t[j]
        /\ i <= Len(t)
        /\ \/ i = Len(s) + 1
           \/ Code(s[i]) < Code(t[i])

\* os.path.basename: what follows the last "/".
Basename(p) ==
    LET slashes == {i \in 1..Len(p) : p[i] = "/"}
        last == IF slashes = {} THEN 0
                ELSE CHOOSE i \in slashes : \A j \in slashes : j <= i
    IN SubSeq(p, last + 1, Len(p))

-----------------------------------------------------------------------------
(* Member Resolver: parse_member_id, parse_member_from_filename *)

\* The regular expression _(\d{2})\.nc$ matches b starting at position i.
\* Without re.MULTILINE, $ matches at the end of the string and also just
\* before a newline that is the last character of the string.
MemberReMatchAt(b, i) ==
    /\ i + 5 <= Len(b)
    /\ b[i] = "_"
    /\ IsDigit(b[i + 1])
    /\ IsDigit(b[i + 2])
    /\ b[i + 3] = "."
    /\ b[i + 4] = "n"
    /\ b[i + 5] = "c"
    /\ \/ i + 5 = Len(b)
       \/ i + 6 = Len(b) /\ b[i + 6] = "\n"

\* re.search: the leftmost position where the expression matches, 0 for None.
MemberReSearch(b) ==
    LET hits == {i \in 1..Len(b) : MemberReMatchAt(b, i)}
    IN IF hits = {} THEN 0
       ELSE CHOOSE i \in hits : \A j \in hits : i <= j

parse_member_id(filepath) ==
    LET basename == Basename(filepath)
        match == MemberReSearch(basename)
    IN IF match = 0 THEN Raise("ValueError", "parse_member_id")
       ELSE Ok(SubSeq(basename, match + 1, match + 2))

parse_member_from_filename(filepath) ==
    LET base == Basename(filepath)
        match == MemberReSearch(base)
    IN IF match # 0 THEN Ok(SubSeq(base, match + 1, match + 2))
       ELSE Raise("ValueError", "parse_member_from_filename")

\* A locator of the documented form, inside a directory.
WellFormedLocator == <<"x", "/", "x", "_", "0", "1", ".", "n", "c">>

\* The characters locators are drawn from.
LocatorChars == {"\n", ".", "/", "0", "1", "_", "c", "n", "x"}

\* Longest arbitrary ending of a locator.
MaxTailLen == 4

\* The locators of the Member Resolver's calls: a beginning of the
\* well-formed locator followed by every string of up to maxTail
\* characters.
Locators(maxTail) ==
    {SubSeq(WellFormedLocator, 1, k) \o t :
        k \in 0..Len(WellFormedLocator),
        t \in UNION {[1..n -> LocatorChars] : n \in 0..maxTail}}

InitParse ==
    /\ pc = "call"
    /\ fn \in {"parse_member_id", "parse_member_from_filename"}
    /\ args \in {[filepath |-> p] : p \in Locators(MaxTailLen)}
    /\ out = NoResult

ParseMemberId ==
    /\ pc = "call"
    /\ fn = "parse_member_id"
    /\ out' = parse_member_id(args.filepath)
    /\ pc' = "done"
    /\ UNCHANGED <<fn, args>>

ParseMemberFromFilename ==
    /\ pc = "call"
    /\ fn = "parse_member_from_filename"
    /\ out' = parse_member_from_filename(args.filepath)
    /\ pc' = "done"
    /\ UNCHANGED <<fn, args>>

NextParse == ParseMemberId \/ ParseMemberFromFilename

SpecParse == InitParse /\ [][NextParse]_vars

\* C4: for every locator, parse_member_id (and its twin
\* parse_member_from_filename) returns the two digits d1 d2 exactly when the
\* locator ends with an underscore, two digits d1 d2 and ".nc"; for every
\* other locator it raises and returns no identifier.
EndsWithMemberSuffix(p) ==
    LET n == Len(p)
    IN /\ n >= 6
       /\ p[n - 5] = "_"
       /\ IsDigit(p[n - 4])
       /\ IsDigit(p[n - 3])
       /\ SubSeq(p, n - 2, n) = <<".", "n", "c">>

C4_ResolverExact ==
    (pc = "done" /\ fn \in {"parse_member_id", "parse_member_from_filename"}) =>
        LET p == args.filepath
        IN IF EndsWithMemberSuffix(p)
           THEN out = Ok(<<p[Len(p) - 4], p[Len(p) - 3]>>)
           ELSE out.status = "ValueError"

-----------------------------------------------------------------------------
(* Datasets *)

\* A dataset, as far as the code looks at it:
\*   variables  ds.variables: every variable's name and its dimensions, in
\*              order (coordinates and data variables alike)
\*   coords     ds.coords: the names of the variables that are coordinates
\*   time       the values along the time axis, in order
\*   member     the values along the member axis, in order (<<>> without one)
Dataset(variables, coords, time, member) ==
    [variables |-> variables, coords |-> coords, time |-> time, member |-> member]

Range(f) == {f[x] : x \in DOMAIN f}

\* ds.dims: the dimensions of all variables.
Dims(ds) == UNION {Range(ds.variables[v]) : v \in DOMAIN ds.variables}

\* ds[name].ndim
Ndim(ds, name) == Len(ds.variables[name])

\* The elements of seq that satisfy Keep, in order.
RECURSIVE FilterSeq(_, _)
FilterSeq(seq, keep) ==
    IF seq = <<>> THEN <<>>
    ELSE (IF Head(seq) \in keep THEN <<Head(seq)>> ELSE <<>>)
         \o FilterSeq(Tail(seq), keep)

\* ds.rename({lat_name: new_lat, lon_name: new_lon}): variables are renamed,
\* a coordinate stays a coordinate under its new name.
Rename(ds, lat_name, new_lat, lon_name, new_lon) ==
    LET NewName(n) == IF n = lat_name THEN new_lat
                      ELSE IF n = lon_name THEN new_lon ELSE n
        OldName(n) == CHOOSE o \in DOMAIN ds.variables : NewName(o) = n
        NewDims(d) == [i \in 1..Len(d) |-> NewName(d[i])]
    IN [ds EXCEPT
          !.variables = [n \in {NewName(o) : o \in DOMAIN ds.variables} |->
                            NewDims(ds.variables[OldName(n)])],
          !.coords = {NewName(c) : c \in ds.coords}]

\* ds.set_coords(names): the named variables become coordinates; the
\* variables that are coordinates already stay coordinates.
SetCoords(ds, names) == [ds EXCEPT !.coords = @ \cup names]

-----------------------------------------------------------------------------
(* Coordinate Normalizer: unify_lat_lon *)

\* The loop of unify_lat_lon over list(ds.coords), the coordinates still to
\* visit in todo.
RECURSIVE StripLatLon2d(_, _)
StripLatLon2d(ds, todo) ==
    IF todo = {} THEN ds
    ELSE LET coord == CHOOSE c \in todo : TRUE
             next == IF coord \in {"lat2d", "lon2d"}
                     THEN SetCoords(ds, ds.coords \ {coord})
                     ELSE ds
         IN StripLatLon2d(next, todo \ {coord})

unify_lat_lon(ds, lat_name, lon_name) ==
    IF lat_name \notin DOMAIN ds.variables \/ lon_name \notin DOMAIN ds.variables
    THEN ds
    ELSE IF Ndim(ds, lat_name) = 2 /\ Ndim(ds, lon_name) = 2
         THEN LET renamed == Rename(ds, lat_name, "lat2d", lon_name, "lon2d")
              IN StripLatLon2d(renamed, renamed.coords)
         ELSE ds

-----------------------------------------------------------------------------
(* Files on disk *)

\* Days and members of the ensemble files on disk.
Days == {1, 2}

Members == {1, 2}

\* Most files one pattern matches.
MaxFiles == 4

Digits == <<"0", "1", "2", "3">>

\* <variable>_<day>_<member>.nc: the k-th member has code "00", "01", ...
EnsemblePath(day, k) ==
    <<"x", "_", Digits[day + 1], "_", "0", Digits[k], ".", "n", "c">>

\* A file: its locator and the time values it holds (one file per day).
EnsembleFiles ==
    {[path |-> EnsemblePath(d, k), time |-> <<d>>] :
        d \in Days, k \in Members}

\* Files whose names do not follow the member convention: no member suffix,
\* a one-digit suffix.
StrayFiles ==
    {[path |-> <<"x", "_", "1", ".", "n", "c">>, time |-> <<1>>],
     [path |-> <<"x", "_", "2", "_", "0", ".", "n", "c">>, time |-> <<2>>]}

\* A file whose name is an ensemble file's name followed by a newline, which
\* a pattern ending in * matches.
NewlineFiles ==
    {[path |-> EnsemblePath(1, 1) \o <<"\n">>, time |-> <<1>>]}

FileSets(most) ==
    {S \in SUBSET (EnsembleFiles \cup StrayFiles \cup NewlineFiles) :
        Cardinality(S) <= most}

\* The grid all files of one pattern share:
\*   rank       1: latitude and longitude are 1-D dimension coordinates;
\*              2: they are 2-D fields over the grid dimensions (y, x)
\*   lat, lon   the names of the two variables
\*   native     the dimensions of the data variable as stored
\*   as_coords  the files register latitude and longitude as coordinates
NativeOrders(a, b) ==
    {<<"time", a, b>>, <<"time", b, a>>, <<"time", "height", a, b>>}

RectilinearGrids ==
    UNION {{[rank |-> 1, lat |-> n[1], lon |-> n[2], native |-> d,
             as_coords |-> TRUE] : d \in NativeOrders(n[1], n[2])} :
           n \in {<<"lat", "lon">>, <<"latitude", "longitude">>}}

CurvilinearGrids ==
    {[rank |-> 2, lat |-> "latitude", lon |-> "longitude", native |-> d,
      as_coords |-> c] : d \in NativeOrders("y", "x"), c \in BOOLEAN}

Grids == RectilinearGrids \cup CurvilinearGrids

\* xr.open_dataset(f, decode_coords="all"): the dataset one file holds.
open_dataset(file, grid) ==
    LET latlon_dims(name) == IF grid.rank = 1 THEN <<name>> ELSE <<"y", "x">>
    IN Dataset(("pr" :> grid.native) @@ ("time" :> <<"time">>)
                   @@ (grid.lat :> latlon_dims(grid.lat))
                   @@ (grid.lon :> latlon_dims(grid.lon)),
               {"time"} \cup (IF grid.as_coords THEN {grid.lat, grid.lon} ELSE {}),
               file.time,
               <<>>)

-----------------------------------------------------------------------------
(* xarray operations the assembler calls *)

\* The values of ds along dim, for the two axes the assembler builds.
Axis(ds, dim) == IF dim = "time" THEN ds.time ELSE ds.member

WithAxis(ds, dim, values) ==
    IF dim = "time" THEN [ds EXCEPT !.time = values]
    ELSE [ds EXCEPT !.member = values]

OtherDim(dim) == IF dim = "time" THEN "member" ELSE "time"

RECURSIVE ConcatAxes(_, _)
ConcatAxes(datasets, dim) ==
    IF datasets = <<>> THEN <<>>
    ELSE Axis(Head(datasets), dim) \o ConcatAxes(Tail(datasets), dim)

\* xr.concat(datasets, dim=dim, coords="minimal", join="override"):
\* the values along dim are appended in the order of the list; every data
\* variable is concatenated, one without dim gets it as its first dimension;
\* the index of the other axis is taken from the first dataset and must have
\* the same size in all of them; an empty list is an error.
concat(datasets, dim) ==
    LET first == datasets[1]
        other == OtherDim(dim)
        ConcatDims(n) ==
            IF n \notin first.coords /\ dim \notin Range(first.variables[n])
            THEN <<dim>> \o first.variables[n]
            ELSE first.variables[n]
    IN IF \/ datasets = <<>>
          \/ \E i \in 1..Len(datasets) :
                Len(Axis(datasets[i], other)) # Len(Axis(first, other))
       THEN Raise("ValueError", "concat")
       ELSE Ok(WithAxis([first EXCEPT
                           !.variables = [n \in DOMAIN first.variables |->
                                             ConcatDims(n)]],
                        dim, ConcatAxes(datasets, dim)))

\* ds.expand_dims({dim: [value]}): dim becomes the first dimension of every
\* data variable (coordinates are left alone) and a coordinate of length 1.
expand_dims(ds, dim, value) ==
    WithAxis([ds EXCEPT
                !.variables =
                    [n \in DOMAIN ds.variables |->
                        IF n \in ds.coords THEN ds.variables[n]
                        ELSE <<dim>> \o ds.variables[n]]
                    @@ (dim :> <<dim>>),
                !.coords = @ \cup {dim}],
             dim, <<value>>)

\* ds.transpose(*order, ...): in every variable the dimensions named in
\* order come first, in that order, the others follow as they were.
transpose(ds, order) ==
    [ds EXCEPT
       !.variables =
           [n \in DOMAIN ds.variables |->
               LET d == ds.variables[n]
               IN FilterSeq(order, Range(d)) \o FilterSeq(d, Range(d) \ Range(order))]]

-----------------------------------------------------------------------------
(* File-Set Assembler: load_ensemble_any_latlon *)

\* Sorted without the sort: the list as the file system gave it.
SortedAsListed(seq) == seq

\* sorted(list of str): ascending by StrLess; the smallest remaining element
\* (the first of equal ones) comes next.
RECURSIVE Sorted(_)
Sorted(seq) ==
    IF seq = <<>> THEN <<>>
    ELSE LET least == CHOOSE i \in 1..Len(seq) :
                 /\ \A j \in 1..Len(seq) : ~StrLess(seq[j], seq[i])
                 /\ \A j \in 1..(i - 1) : seq[j] # seq[i]
         IN <<seq[least]>>
            \o Sorted(SubSeq(seq, 1, least - 1) \o SubSeq(seq, least + 1, Len(seq)))

\* member_files.setdefault(member_id, []).append(fp), the dict as the
\* sequence of its items in insertion order.
SetDefaultAppend(member_files, member_id, fp) ==
    IF \E i \in 1..Len(member_files) : member_files[i].m_id = member_id
    THEN LET i == CHOOSE k \in 1..Len(member_files) :
                      member_files[k].m_id = member_id
         IN [member_files EXCEPT ![i].fps = Append(@, fp)]
    ELSE Append(member_files, [m_id |-> member_id, fps |-> <<fp>>])

\* The grouping loop with a locator that does not parse skipped.
RECURSIVE GroupByMemberSkipping(_, _)
GroupByMemberSkipping(filepaths, member_files) ==
    IF filepaths = <<>> THEN Ok(member_files)
    ELSE LET fp == Head(filepaths)
             member_id == parse_member_id(fp)
         IN IF member_id.status # "ok"
            THEN GroupByMemberSkipping(Tail(filepaths), member_files)
            ELSE GroupByMemberSkipping(Tail(filepaths),
                     SetDefaultAppend(member_files, member_id.value, fp))

\* The grouping loop: the first locator that does not parse raises.
RECURSIVE GroupByMember(_, _)
GroupByMember(filepaths, member_files) ==
    IF filepaths = <<>> THEN Ok(member_files)
    ELSE LET fp == Head(filepaths)
             member_id == parse_member_id(fp)
         IN IF member_id.status # "ok" THEN member_id
            ELSE GroupByMember(Tail(filepaths),
                               SetDefaultAppend(member_files, member_id.value, fp))

\* One member's files, opened in sorted order, normalized, concatenated
\* along time and tagged with the member identifier.
MemberDataset(disk, grid, item) ==
    LET fps == Sorted(item.fps)
        ds_list == [i \in 1..Len(fps) |->
                       unify_lat_lon(
                           open_dataset(CHOOSE f \in disk : f.path = fps[i], grid),
                           "latitude", "longitude")]
        ds_time == concat(ds_list, "time")
    IN IF ds_time.status # "ok" THEN ds_time
       ELSE Ok(expand_dims(ds_time.value, "member", item.m_id))

\* The final reordering left out.
ReorderSkipped(ds_ensemble) == ds_ensemble

\* The final reordering of load_ensemble_any_latlon.
Reorder(ds_ensemble) ==
    IF "member" \in Dims(ds_ensemble) /\ "time" \in Dims(ds_ensemble)
    THEN IF "lat" \in Dims(ds_ensemble) /\ "lon" \in Dims(ds_ensemble)
         THEN transpose(ds_ensemble, <<"time", "lat", "lon", "member">>)
         ELSE ds_ensemble
    ELSE ds_ensemble

\* load_ensemble_any_latlon(file_pattern): disk holds the files, matched is
\* glob(file_pattern), the locators of the files in the order the file
\* system lists them, grid the grid of the files.
load_ensemble_any_latlon(disk, matched, grid) ==
    LET filepaths == Sorted(matched)
    IN IF filepaths = <<>>
       THEN Raise("FileNotFoundError", "load_ensemble_any_latlon")
       ELSE LET member_files == GroupByMember(filepaths, <<>>)
            IN IF member_files.status # "ok" THEN member_files
               ELSE LET items == member_files.value
                        built == [i \in 1..Len(items) |->
                                     MemberDataset(disk, grid, items[i])]
                    IN IF \E i \in 1..Len(built) : built[i].status # "ok"
                       THEN built[CHOOSE i \in 1..Len(built) :
                                     /\ built[i].status # "ok"
                                     /\ \A j \in 1..(i - 1) : built[j].status = "ok"]
                       ELSE LET member_datasets ==
                                    [i \in 1..Len(built) |-> built[i].value]
                                ds_ensemble == concat(member_datasets, "member")
                            IN IF ds_ensemble.status # "ok" THEN ds_ensemble
                               ELSE Ok(Reorder(ds_ensemble.value))

\* The orders in which the file system can list the locators in P.
RECURSIVE Listings(_)
Listings(P) ==
    IF P = {} THEN {<<>>}
    ELSE UNION {{<<x>> \o rest : rest \in Listings(P \ {x})} : x \in P}

InitAssemble ==
    /\ pc = "call"
    /\ fn = "load_ensemble_any_latlon"
    /\ args \in {[files |-> S, grid |-> g] : S \in FileSets(MaxFiles), g \in Grids}
    /\ out = NoResult

LoadEnsembleAnyLatLon ==
    /\ pc = "call"
    /\ fn = "load_ensemble_any_latlon"
    /\ \E matched \in Listings({f.path : f \in args.files}) :
           out' = load_ensemble_any_latlon(args.files, matched, args.grid)
    /\ pc' = "done"
    /\ UNCHANGED <<fn, args>>

NextAssemble == LoadEnsembleAnyLatLon

SpecAssemble == InitAssemble /\ [][NextAssemble]_vars


\* The member indices and the days the ensemble files in S cover.
MembersOf(S) == {k \in Members : \E f \in S \cap EnsembleFiles :
                                    \E d \in Days : f.path = EnsemblePath(d, k)}

DaysOf(S, k) == {d \in Days : \E f \in S : f.path = EnsemblePath(d, k)}

\* S holds only ensemble files, for N >= 1 members with M >= 1 days each.
CoversMembersByDays(S, N, M) ==
    /\ S # {}
    /\ S \subseteq EnsembleFiles
    /\ Cardinality(MembersOf(S)) = N
    /\ \A k \in MembersOf(S) : Cardinality(DaysOf(S, k)) = M

AssembleDone == pc = "done" /\ fn = "load_ensemble_any_latlon"

\* C1: for files covering N members with M disjoint days each,
\* load_ensemble_any_latlon returns a dataset with a member axis of length N
\* and a time axis of length M, and it returns that same dataset (axis
\* lengths, member and time values in the same order) whatever order the
\* file system lists the files in.
C1_EnsembleShape ==
    AssembleDone =>
        \A N \in 1..Cardinality(Members), M \in 1..Cardinality(Days) :
            CoversMembersByDays(args.files, N, M) =>
                /\ out.status = "ok"
                /\ Len(out.value.member) = N
                /\ Len(out.value.time) = M
                /\ \A matched \in Listings({f.path : f \in args.files}) :
                       load_ensemble_any_latlon(args.files, matched, args.grid) = out

C1_Witness ==
    /\ AssembleDone
    /\ CoversMembersByDays(args.files, 2, 2)
    /\ out.status = "ok"

\* C2: the values along the member axis of every assembled dataset are in
\* ascending identifier order.
C2_MembersAscending ==
    (AssembleDone /\ out.status = "ok") =>
        \A i, j \in 1..Len(out.value.member) :
            i < j => StrLess(out.value.member[i], out.value.member[j])

\* C3: assembly is all-or-nothing: a dataset is returned only when at least
\* one file matched and the Member Resolver yields an identifier for every
\* matched locator; no match raises FileNotFoundError; one locator the
\* resolver rejects (among them every file off the naming convention that
\* has no member suffix or a one-digit suffix) raises the resolver's error
\* for the whole call, whatever the other files are.
Resolves(f) == parse_member_id(f.path).status = "ok"

StartsWith(seq, start) ==
    Len(seq) >= Len(start) /\ SubSeq(seq, 1, Len(start)) = start

-----------------------------------------------------------------------------
(* Calls of unify_lat_lon *)

\* Curvilinear files whose 2-D fields are named lat and lon.
CurvilinearLatLonGrids ==
    {[rank |-> 2, lat |-> "lat", lon |-> "lon", native |-> d, as_coords |-> c] :
        d \in NativeOrders("y", "x"), c \in BOOLEAN}

\* A dataset without latitude and longitude.
NonSpatial(time) ==
    Dataset(("pr" :> <<"time">>) @@ ("time" :> <<"time">>), {"time"}, time, <<>>)

UnifyDatasets ==
    {open_dataset([path |-> EnsemblePath(d, 1), time |-> <<d>>], g) :
        d \in Days, g \in Grids \cup CurvilinearLatLonGrids}
    \cup {NonSpatial(<<d>>) : d \in Days}

InitUnify ==
    /\ pc = "call"
    /\ fn = "unify_lat_lon"
    /\ args \in {[ds |-> ds, lat_name |-> n[1], lon_name |-> n[2]] :
                    ds \in UnifyDatasets,
                    n \in {<<"latitude", "longitude">>, <<"lat", "lon">>}}
    /\ out = NoResult

UnifyLatLon ==
    /\ pc = "call"
    /\ fn = "unify_lat_lon"
    /\ out' = Ok(unify_lat_lon(args.ds, args.lat_name, args.lon_name))
    /\ pc' = "done"
    /\ UNCHANGED <<fn, args>>

NextUnify == UnifyLatLon

SpecUnify == InitUnify /\ [][NextUnify]_vars

\* C5: for every dataset whose latitude and longitude fields are both
\* rank-2, unify_lat_lon returns a dataset with the fields lat2d and lon2d
\* over the same two grid dimensions, neither of them in the coordinate set,
\* also when the input registers latitude and longitude as coordinates.
C5_Demoted ==
    (/\ pc = "done"
     /\ fn = "unify_lat_lon"
     /\ args.lat_name \in DOMAIN args.ds.variables
     /\ args.lon_name \in DOMAIN args.ds.variables
     /\ Ndim(args.ds, args.lat_name) = 2
     /\ Ndim(args.ds, args.lon_name) = 2) =>
        /\ out.status = "ok"
        /\ {"lat2d", "lon2d"} \subseteq DOMAIN out.value.variables
        /\ out.value.variables["lat2d"] = args.ds.variables[args.lat_name]
        /\ out.value.variables["lon2d"] = args.ds.variables[args.lon_name]
        /\ "lat2d" \notin out.value.coords
        /\ "lon2d" \notin out.value.coords

-----------------------------------------------------------------------------
(* Datasets with values, for the subsetters *)

\* A keyword argument left at its default None.
None == [none |-> TRUE]

\* Largest latitude of the modelled grids and bounding boxes.
MaxCoord == 1

LatValues == 0..MaxCoord

LonValues == {0, 1}

\* The time axis of the datasets that are subset.
TimeAxis == <<0, 1, 2>>

\* A 1-D axis of one or two distinct values (ascending or descending).
Axes(values) ==
    {<<a>> : a \in values} \cup {p \in values \X values : p[1] # p[2]}

\* A 2-D field over the grid dimensions (y, x), two rows by two columns, as
\* the sequence of its rows.
Fields2d(values) == [1..2 -> [1..2 -> values]]

\* A dataset with values: a Dataset and
\*   data   the values of its latitude, longitude and index variables
\*          (1-D: a sequence; 2-D: the sequence of the rows)
\*   nan    for each cell of the grid (first grid dimension by second),
\*          whether the data variables are masked (NaN) there
WithData(variables, coords, data, rows, cols) ==
    Dataset(variables, coords, TimeAxis, <<>>)
        @@ [data |-> data, nan |-> [i \in 1..rows |-> [j \in 1..cols |-> FALSE]]]

Positions(n) == [i \in 1..n |-> i]

\* lat(lat), lon(lon): 1-D dimension coordinates with an index.
Rect1d(lat, lon) ==
    WithData(("pr" :> <<"time", "lat", "lon">>) @@ ("time" :> <<"time">>)
                 @@ ("lat" :> <<"lat">>) @@ ("lon" :> <<"lon">>),
             {"time", "lat", "lon"},
             ("lat" :> lat) @@ ("lon" :> lon),
             Len(lat), Len(lon))

\* lat(y), lon(x): 1-D fields along the grid dimensions y and x, plain data
\* variables or coordinates without an index.
Plain1d(lat, lon, as_coords) ==
    WithData(("pr" :> <<"time", "y", "x">>) @@ ("time" :> <<"time">>)
                 @@ ("lat" :> <<"y">>) @@ ("lon" :> <<"x">>)
                 @@ ("y" :> <<"y">>) @@ ("x" :> <<"x">>),
             {"time", "y", "x"} \cup (IF as_coords THEN {"lat", "lon"} ELSE {}),
             ("lat" :> lat) @@ ("lon" :> lon)
                 @@ ("y" :> Positions(Len(lat))) @@ ("x" :> Positions(Len(lon))),
             Len(lat), Len(lon))

\* lat2d(y, x), lon2d(y, x): 2-D fields, plain or coordinates.
Curv2d(lat2d, lon2d, as_coords) ==
    WithData(("pr" :> <<"time", "y", "x">>) @@ ("time" :> <<"time">>)
                 @@ ("lat2d" :> <<"y", "x">>) @@ ("lon2d" :> <<"y", "x">>)
                 @@ ("y" :> <<"y">>) @@ ("x" :> <<"x">>),
             {"time", "y", "x"} \cup (IF as_coords THEN {"lat2d", "lon2d"} ELSE {}),
             ("lat2d" :> lat2d) @@ ("lon2d" :> lon2d)
                 @@ ("y" :> Positions(2)) @@ ("x" :> Positions(2)),
             2, 2)

\* lat2d(y, x) with a 1-D lon(x).
Mixed(lat2d, lon) ==
    WithData(("pr" :> <<"time", "y", "x">>) @@ ("time" :> <<"time">>)
                 @@ ("lat2d" :> <<"y", "x">>) @@ ("lon" :> <<"x">>)
                 @@ ("y" :> <<"y">>) @@ ("x" :> <<"x">>),
             {"time", "y", "x"},
             ("lat2d" :> lat2d) @@ ("lon" :> lon)
                 @@ ("y" :> Positions(2)) @@ ("x" :> Positions(2)),
             2, 2)

\* The datasets with 1-D latitude and longitude, latitudes drawn from lats.
Datasets1d(lats) ==
    {Rect1d(a, b) : a \in Axes(lats), b \in Axes(LonValues)}
    \cup {Plain1d(a, b, c) : a \in Axes(lats), b \in Axes(LonValues),
                             c \in BOOLEAN}

\* The datasets with a 2-D latitude, latitudes drawn from lats; the
\* longitude of the 2-D grids depends on the column only.
Datasets2d(lats) ==
    {Curv2d(a, [i \in 1..2 |-> b], c) :
        a \in Fields2d(lats), b \in [1..2 -> LonValues], c \in BOOLEAN}
    \cup {Mixed(a, b) : a \in Fields2d(lats), b \in [1..2 -> LonValues]}

\* The names of the latitude and longitude variables of ds.
LatLonNames(ds) ==
    <<IF "lat" \in DOMAIN ds.variables THEN "lat" ELSE "lat2d",
      IF "lon" \in DOMAIN ds.variables THEN "lon" ELSE "lon2d">>

Boxes(lats) ==
    [lat_min : lats, lat_max : lats, lon_min : LonValues, lon_max : LonValues]

-----------------------------------------------------------------------------
(* xarray selection *)

\* name is a dimension coordinate of ds with an index.
IsIndex(ds, name) ==
    /\ name \in ds.coords
    /\ name \in DOMAIN ds.variables
    /\ ds.variables[name] = <<name>>

\* The two grid dimensions of ds: the dimensions of pr after time.
GridDims(ds) == FilterSeq(ds.variables["pr"], Range(ds.variables["pr"]) \ {"time"})

\* The elements of seq at the positions idx, in the order of idx.
Take(seq, idx) == [k \in 1..Len(idx) |-> seq[idx[k]]]

\* An array with dimensions dims restricted to the positions idx along dim.
TakeAlong(array, dims, dim, idx) ==
    IF Len(dims) >= 1 /\ dims[1] = dim THEN Take(array, idx)
    ELSE IF Len(dims) = 2 /\ dims[2] = dim
         THEN [i \in 1..Len(array) |-> Take(array[i], idx)]
         ELSE array

\* ds.isel({dim: idx}): every variable with the dimension dim keeps the
\* positions idx along it.
isel(ds, dim, idx) ==
    [ds EXCEPT
       !.data = [n \in DOMAIN ds.data |->
                    TakeAlong(ds.data[n], ds.variables[n], dim, idx)],
       !.nan = TakeAlong(ds.nan, GridDims(ds), dim, idx),
       !.time = IF dim = "time" THEN Take(ds.time, idx) ELSE ds.time]

\* The positions of seq, ascending, whose element satisfies Keep.
RECURSIVE PositionsIn(_, _, _)
PositionsIn(seq, keep, from) ==
    IF from > Len(seq) THEN <<>>
    ELSE (IF seq[from] \in keep THEN <<from>> ELSE <<>>)
         \o PositionsIn(seq, keep, from + 1)

\* The position of each label in the (unique-valued) index.
Locate(index, labels) ==
    [k \in 1..Len(labels) |-> CHOOSE i \in 1..Len(index) : index[i] = labels[k]]

\* ds.sel({lat_var: lat_labels, lon_var: lon_labels}): selection by label
\* needs an index on each key; a key that is no indexed dimension raises.
sel(ds, lat_var, lat_labels, lon_var, lon_labels) ==
    IF ~IsIndex(ds, lat_var) \/ ~IsIndex(ds, lon_var)
    THEN Raise("KeyError", "sel")
    ELSE Ok(isel(isel(ds, lat_var, Locate(ds.data[lat_var], lat_labels)),
                 lon_var, Locate(ds.data[lon_var], lon_labels)))

\* ds.sel({time_var: slice(start, end)}) on the ascending time index: both
\* ends are inclusive.
sel_slice(ds, time_var, start, end) ==
    IF ~IsIndex(ds, time_var)
    THEN Raise("KeyError", "sel")
    ELSE Ok(isel(ds, time_var,
                 PositionsIn(ds.time, {t \in Range(ds.time) : start <= t /\ t <= end}, 1)))

\* The value at grid cell (i, j) of a field along y, along x, or over (y, x):
\* the broadcast of the field over the grid.
Broadcast(array, dims, i, j) ==
    IF dims = <<"y", "x">> THEN array[i][j]
    ELSE IF dims = <<"y">> THEN array[i]
    ELSE array[j]

\* ds.where(cond, drop=True), cond a boolean field over the grid: each grid
\* dimension keeps the positions where cond is true somewhere along the
\* other one; in what is kept the data variables are NaN where cond is false.
where_drop(ds, cond) ==
    LET rows == PositionsIn(Positions(Len(cond)),
                            {i \in 1..Len(cond) :
                                \E j \in 1..Len(cond[i]) : cond[i][j]}, 1)
        cols == PositionsIn(Positions(Len(cond[1])),
                            {j \in 1..Len(cond[1]) :
                                \E i \in 1..Len(cond) : cond[i][j]}, 1)
        dropped == isel(isel(ds, GridDims(ds)[1], rows), GridDims(ds)[2], cols)
    IN [dropped EXCEPT
          !.nan = [a \in 1..Len(rows) |-> [b \in 1..Len(cols) |->
                      dropped.nan[a][b] \/ ~cond[rows[a]][cols[b]]]]]

-----------------------------------------------------------------------------
(* Bounding-Box Subsetter and Time-Range Subsetter *)

\* The elements of a 1-D array that lie in [lo, hi], in order:
\* lat_data[(lat_data >= lo) & (lat_data <= hi)].
RECURSIVE Masked1d(_, _, _)
Masked1d(array, lo, hi) ==
    IF array = <<>> THEN <<>>
    ELSE (IF Head(array) >= lo /\ Head(array) <= hi THEN <<Head(array)>> ELSE <<>>)
         \o Masked1d(Tail(array), lo, hi)

\* subset_dataset with the fields resolved before bounds is looked at.
subset_dataset_resolving_first(ds, lat_var, lon_var, bounds) ==
    IF lat_var \notin ds.coords /\ lat_var \notin DOMAIN ds.variables
    THEN Raise("KeyError", "subset_dataset")
    ELSE IF lon_var \notin ds.coords /\ lon_var \notin DOMAIN ds.variables
    THEN Raise("KeyError", "subset_dataset")
    ELSE Ok(ds)

\* The 2-D bounding of subset_dataset with || in place of &.
within_box_either(ds, lat_var, lon_var, bounds) ==
    [i \in 1..Len(ds.nan) |-> [j \in 1..Len(ds.nan[i]) |->
        \/ /\ Broadcast(ds.data[lat_var], ds.variables[lat_var], i, j) >= bounds.lat_min
           /\ Broadcast(ds.data[lat_var], ds.variables[lat_var], i, j) <= bounds.lat_max
        \/ /\ Broadcast(ds.data[lon_var], ds.variables[lon_var], i, j) >= bounds.lon_min
           /\ Broadcast(ds.data[lon_var], ds.variables[lon_var], i, j) <= bounds.lon_max]]

\* The 2-D bounding of subset_dataset: the combined predicate per grid cell.
within_box(ds, lat_var, lon_var, bounds) ==
    [i \in 1..Len(ds.nan) |-> [j \in 1..Len(ds.nan[i]) |->
        /\ Broadcast(ds.data[lat_var], ds.variables[lat_var], i, j) >= bounds.lat_min
        /\ Broadcast(ds.data[lat_var], ds.variables[lat_var], i, j) <= bounds.lat_max
        /\ Broadcast(ds.data[lon_var], ds.variables[lon_var], i, j) >= bounds.lon_min
        /\ Broadcast(ds.data[lon_var], ds.variables[lon_var], i, j) <= bounds.lon_max]]

subset_dataset(ds, lat_var, lon_var, bounds) ==
    IF bounds = None THEN Ok(ds)
    ELSE IF lat_var \notin ds.coords /\ lat_var \notin DOMAIN ds.variables
    THEN Raise("KeyError", "subset_dataset")
    ELSE IF lon_var \notin ds.coords /\ lon_var \notin DOMAIN ds.variables
    THEN Raise("KeyError", "subset_dataset")
    ELSE IF Ndim(ds, lat_var) = 1 /\ Ndim(ds, lon_var) = 1
    THEN sel(ds,
             lat_var, Masked1d(ds.data[lat_var], bounds.lat_min, bounds.lat_max),
             lon_var, Masked1d(ds.data[lon_var], bounds.lon_min, bounds.lon_max))
    ELSE Ok(where_drop(ds, within_box(ds, lat_var, lon_var, bounds)))

subset_time(ds, time_var, time_bounds) ==
    IF time_bounds = None THEN Ok(ds)
    ELSE sel_slice(ds, time_var, time_bounds.start_time, time_bounds.end_time)

\* Calls of subset_dataset: every dataset under its own field names with
\* every box and without one, and under the names of the other kind.
SubsetDatasetCalls(lats) ==
    {[ds |-> ds, lat_var |-> LatLonNames(ds)[1], lon_var |-> LatLonNames(ds)[2],
      bounds |-> b] :
        ds \in Datasets1d(lats) \cup Datasets2d(lats), b \in Boxes(lats) \cup {None}}
    \cup
    {[ds |-> ds, lat_var |-> n[1], lon_var |-> n[2], bounds |-> b] :
        ds \in Datasets1d(lats) \cup Datasets2d(lats),
        n \in {<<"lat", "lon">>, <<"lat2d", "lon2d">>, <<"lat2d", "lon">>},
        b \in {None, [lat_min |-> 0, lat_max |-> 1, lon_min |-> 0, lon_max |-> 1]}}

TimeBounds ==
    {None} \cup [start_time : Range(TimeAxis) \cup {3}, end_time : Range(TimeAxis) \cup {3}]

SubsetTimeCalls(lats) ==
    {[ds |-> ds, time_var |-> v, time_bounds |-> b] :
        ds \in {Rect1d(a, <<0, 1>>) : a \in Axes(lats)},
        v \in {"time", "t"}, b \in TimeBounds}

InitSubset ==
    /\ pc = "call"
    /\ \/ fn = "subset_dataset" /\ args \in SubsetDatasetCalls(LatValues)
       \/ fn = "subset_time" /\ args \in SubsetTimeCalls(LatValues)
    /\ out = NoResult

SubsetDataset ==
    /\ pc = "call"
    /\ fn = "subset_dataset"
    /\ out' = subset_dataset(args.ds, args.lat_var, args.lon_var, args.bounds)
    /\ pc' = "done"
    /\ UNCHANGED <<fn, args>>

SubsetTime ==
    /\ pc = "call"
    /\ fn = "subset_time"
    /\ out' = subset_time(args.ds, args.time_var, args.time_bounds)
    /\ pc' = "done"
    /\ UNCHANGED <<fn, args>>

NextSubset == SubsetDataset \/ SubsetTime

SpecSubset == InitSubset /\ [][NextSubset]_vars

SubsetDone == pc = "done" /\ fn = "subset_dataset"

\* The call names two variables of the dataset and gives a box.
BoxOnFields ==
    /\ SubsetDone
    /\ args.bounds # None
    /\ args.lat_var \in DOMAIN args.ds.variables
    /\ args.lon_var \in DOMAIN args.ds.variables

\* The positions of a 1-D array whose value is inside [lo, hi].
InRange(array, lo, hi) == {i \in 1..Len(array) : lo <= array[i] /\ array[i] <= hi}

\* C7: for every box and every dataset whose latitude and longitude are
\* rank-1, indexing coordinates or plain fields, subset_dataset returns a
\* dataset that keeps exactly the latitudes in [lat_min, lat_max] and the
\* longitudes in [lon_min, lon_max], bounds included, so each axis has as
\* many values as satisfy its bounds.
C7_ExactSelection1d ==
    (/\ BoxOnFields
     /\ Ndim(args.ds, args.lat_var) = 1
     /\ Ndim(args.ds, args.lon_var) = 1) =>
        LET lat == args.ds.data[args.lat_var]
            lon == args.ds.data[args.lon_var]
            b == args.bounds
        IN /\ out.status = "ok"
           /\ Range(out.value.data[args.lat_var])
                  = {lat[i] : i \in InRange(lat, b.lat_min, b.lat_max)}
           /\ Range(out.value.data[args.lon_var])
                  = {lon[j] : j \in InRange(lon, b.lon_min, b.lon_max)}
           /\ Len(out.value.data[args.lat_var])
                  = Cardinality(InRange(lat, b.lat_min, b.lat_max))
           /\ Len(out.value.data[args.lon_var])
                  = Cardinality(InRange(lon, b.lon_min, b.lon_max))
           /\ Len(out.value.nan) = Cardinality(InRange(lat, b.lat_min, b.lat_max))

\* The combined predicate of a box at grid cell (i, j) of a dataset.
CellInBox(ds, lat_var, lon_var, b, i, j) ==
    LET lat == Broadcast(ds.data[lat_var], ds.variables[lat_var], i, j)
        lon == Broadcast(ds.data[lon_var], ds.variables[lon_var], i, j)
    IN b.lat_min <= lat /\ lat <= b.lat_max /\ b.lon_min <= lon /\ lon <= b.lon_max

\* C8: for every dataset with a rank-2 latitude or longitude and every box,
\* subset_dataset returns a rectangular dataset that keeps exactly the rows
\* with at least one cell inside the box and exactly the columns with at
\* least one cell inside the box; every cell inside the box is in the
\* result, unmasked.
C8_RowsAndColumns2d ==
    (/\ BoxOnFields
     /\ Ndim(args.ds, args.lat_var) = 2 \/ Ndim(args.ds, args.lon_var) = 2) =>
        LET In(i, j) == CellInBox(args.ds, args.lat_var, args.lon_var,
                                  args.bounds, i, j)
            rows == {i \in 1..2 : \E j \in 1..2 : In(i, j)}
            cols == {j \in 1..2 : \E i \in 1..2 : In(i, j)}
        IN /\ out.status = "ok"
           /\ Range(out.value.data["y"]) = rows
           /\ Range(out.value.data["x"]) = cols
           /\ Len(out.value.data["y"]) = Cardinality(rows)
           /\ Len(out.value.data["x"]) = Cardinality(cols)
           /\ Len(out.value.nan) = Cardinality(rows)
           /\ \A a \in 1..Len(out.value.nan) :
                  Len(out.value.nan[a]) = Cardinality(cols)
           /\ \A a \in 1..Len(out.value.data["y"]), c \in 1..Len(out.value.data["x"]) :
                  In(out.value.data["y"][a], out.value.data["x"][c])
                      => ~out.value.nan[a][c]

\* Both rows and both columns are kept although two cells are outside the
\* box: the result is the bounding rectangle, with those cells masked.
C8_Witness ==
    /\ BoxOnFields
    /\ Ndim(args.ds, args.lat_var) = 2
    /\ out.status = "ok"
    /\ Len(out.value.data["y"]) = 2
    /\ Len(out.value.data["x"]) = 2
    /\ out.value.nan = <<<<FALSE, TRUE>>, <<TRUE, FALSE>>>>

\* C9: without bounds subset_dataset returns its dataset unchanged, and
\* without time bounds so does subset_time; no field is resolved, so the
\* call succeeds also when the named fields are absent.
C9_Identity ==
    /\ (SubsetDone /\ args.bounds = None) => out = Ok(args.ds)
    /\ (pc = "done" /\ fn = "subset_time" /\ args.time_bounds = None)
           => out = Ok(args.ds)

C9_Witness ==
    /\ SubsetDone
    /\ args.bounds = None
    /\ args.lat_var \notin DOMAIN args.ds.variables
    /\ out = Ok(args.ds)

-----------------------------------------------------------------------------
(* Time-Range Subsetter: get_common_time_range *)

\* Latest time of the datasets whose extents are compared.
MaxTime == 3

\* ds[time_var].min(), ds[time_var].max(): reductions over the axis.
RECURSIVE ArrayMin(_)
ArrayMin(array) ==
    IF Len(array) = 1 THEN array[1]
    ELSE LET rest == ArrayMin(Tail(array))
         IN IF array[1] <= rest THEN array[1] ELSE rest

RECURSIVE ArrayMax(_)
ArrayMax(array) ==
    IF Len(array) = 1 THEN array[1]
    ELSE LET rest == ArrayMax(Tail(array))
         IN IF array[1] >= rest THEN array[1] ELSE rest

\* The builtins max(a, b) and min(a, b): the first argument unless the
\* second is strictly greater (smaller).
PyMax(a, b) == IF b > a THEN b ELSE a

PyMin(a, b) == IF b < a THEN b ELSE a

\* get_common_time_range with the extent of ds1 alone.
get_common_time_range_first_only(ds1, ds2, time_var) ==
    IF time_var \notin DOMAIN ds1.variables \/ time_var \notin DOMAIN ds2.variables
    THEN Raise("KeyError", "get_common_time_range")
    ELSE Ok([start_time |-> ArrayMin(ds1.time), end_time |-> ArrayMax(ds1.time)])

get_common_time_range(ds1, ds2, time_var) ==
    IF time_var \notin DOMAIN ds1.variables \/ time_var \notin DOMAIN ds2.variables
    THEN Raise("KeyError", "get_common_time_range")
    ELSE LET time_min == PyMax(ArrayMin(ds1.time), ArrayMin(ds2.time))
             time_max == PyMin(ArrayMax(ds1.time), ArrayMax(ds2.time))
         IN Ok([start_time |-> time_min, end_time |-> time_max])

\* The times in S from time from up to last, ascending.
RECURSIVE Ascending(_, _, _)
Ascending(S, from, last) ==
    IF from > last THEN <<>>
    ELSE (IF from \in S THEN <<from>> ELSE <<>>) \o Ascending(S, from + 1, last)

\* The time axes: the non-empty sets of times up to last, ascending.
TimeAxes(last) == {Ascending(S, 0, last) : S \in SUBSET (0..last) \ {{}}}

InitTime ==
    /\ pc = "call"
    /\ fn = "get_common_time_range"
    /\ args \in {[ds1 |-> NonSpatial(a), ds2 |-> NonSpatial(b), time_var |-> v] :
                    a \in TimeAxes(MaxTime), b \in TimeAxes(MaxTime),
                    v \in {"time", "t"}}
    /\ out = NoResult

GetCommonTimeRange ==
    /\ pc = "call"
    /\ fn = "get_common_time_range"
    /\ out' = get_common_time_range(args.ds1, args.ds2, args.time_var)
    /\ pc' = "done"
    /\ UNCHANGED <<fn, args>>

NextTime == GetCommonTimeRange

SpecTime == InitTime /\ [][NextTime]_vars

\* The least and the greatest element of a set of times.
Least(S) == CHOOSE t \in S : \A u \in S : t <= u

Greatest(S) == CHOOSE t \in S : \A u \in S : u <= t

\* C10: for datasets a and b with a time axis, get_common_time_range
\* returns start = the later of the two first times and end = the earlier
\* of the two last times, the same with a and b swapped, and when the
\* extents do not overlap the range with start > end is returned as a
\* value, not an error.
C10_CommonRange ==
    (pc = "done" /\ fn = "get_common_time_range" /\ args.time_var = "time") =>
        LET a == Range(args.ds1.time)
            b == Range(args.ds2.time)
        IN /\ out = Ok([start_time |-> Greatest({Least(a), Least(b)}),
                        end_time |-> Least({Greatest(a), Greatest(b)})])
           /\ out = get_common_time_range(args.ds2, args.ds1, args.time_var)
           /\ (Greatest(a) < Least(b) \/ Greatest(b) < Least(a))
                  => out.status = "ok" /\ out.value.start_time > out.value.end_time

C10_Witness ==
    /\ pc = "done"
    /\ fn = "get_common_time_range"
    /\ args.time_var = "time"
    /\ Greatest(Range(args.ds1.time)) < Least(Range(args.ds2.time))
    /\ out.status = "ok"
    /\ out.value.start_time > out.value.end_time

-----------------------------------------------------------------------------
(* Forced Dimension Matcher: force_match_dimensions *)

\* Largest length of a grid dimension.
MaxSize == 2

\* A dataset with the lengths of its dimensions (ds.dims).
Sized(variables, coords, sizes) ==
    Dataset(variables, coords, <<>>, <<>>) @@ [sizes |-> sizes]

\* A grid on the dimensions y and x with their dimension coordinates.
GridYX(ny, nx) ==
    Sized(("RR" :> <<"y", "x">>) @@ ("y" :> <<"y">>) @@ ("x" :> <<"x">>),
          {"y", "x"},
          ("y" :> ny) @@ ("x" :> nx))

\* The same grid with its 2-D latitude and longitude, lat(y, x), lon(y, x).
GridYXLatLon2d(ny, nx) ==
    Sized(("RR" :> <<"y", "x">>) @@ ("y" :> <<"y">>) @@ ("x" :> <<"x">>)
              @@ ("lat" :> <<"y", "x">>) @@ ("lon" :> <<"y", "x">>),
          {"y", "x", "lat", "lon"},
          ("y" :> ny) @@ ("x" :> nx))

\* A grid on the dimensions lat and lon with their dimension coordinates.
GridLatLon(nlat, nlon) ==
    Sized(("RR" :> <<"lat", "lon">>) @@ ("lat" :> <<"lat">>)
              @@ ("lon" :> <<"lon">>),
          {"lat", "lon"},
          ("lat" :> nlat) @@ ("lon" :> nlon))

SizedGrids(most) ==
    {GridYX(a, b) : a \in 1..most, b \in 1..most}
    \cup {GridYXLatLon2d(a, b) : a \in 1..most, b \in 1..most}
    \cup {GridLatLon(a, b) : a \in 1..most, b \in 1..most}

\* ds.rename(name_dict) of xarray: every key must name a variable or a
\* dimension; variables and dimensions are renamed together; two variables
\* under one new name are a conflict (ValueError).
rename(ds, name_dict) ==
    LET NewName(n) == IF n \in DOMAIN name_dict THEN name_dict[n] ELSE n
        NewDims(d) == [i \in 1..Len(d) |-> NewName(d[i])]
        OldVar(n) == CHOOSE o \in DOMAIN ds.variables : NewName(o) = n
        OldDim(n) == CHOOSE o \in DOMAIN ds.sizes : NewName(o) = n
    IN IF \E k \in DOMAIN name_dict :
              k \notin DOMAIN ds.variables /\ k \notin DOMAIN ds.sizes
       THEN Raise("ValueError", "rename")
       ELSE IF \E a, b \in DOMAIN ds.variables : a # b /\ NewName(a) = NewName(b)
       THEN Raise("ValueError", "rename")
       ELSE Ok([ds EXCEPT
                  !.variables = [n \in {NewName(o) : o \in DOMAIN ds.variables} |->
                                    NewDims(ds.variables[OldVar(n)])],
                  !.coords = {NewName(c) : c \in ds.coords},
                  !.sizes = [n \in {NewName(o) : o \in DOMAIN ds.sizes} |->
                                ds.sizes[OldDim(n)]]])

force_match_dimensions(ds_ref, ds_ens, ref_dims, ens_dims) ==
    LET y_dim == ref_dims[1]
        x_dim == ref_dims[2]
        lat_dim == ens_dims[1]
        lon_dim == ens_dims[2]
    IN IF ~(y_dim \in DOMAIN ds_ref.sizes /\ x_dim \in DOMAIN ds_ref.sizes)
       THEN Raise("ValueError", "force_match_dimensions")
       ELSE IF ~(lat_dim \in DOMAIN ds_ens.sizes /\ lon_dim \in DOMAIN ds_ens.sizes)
       THEN Raise("ValueError", "force_match_dimensions")
       ELSE IF <<ds_ref.sizes[y_dim], ds_ref.sizes[x_dim]>>
                   # <<ds_ens.sizes[lat_dim], ds_ens.sizes[lon_dim]>>
       THEN Raise("ValueError", "force_match_dimensions")
       ELSE LET ds_ref_new ==
                    rename(ds_ref, (x_dim :> lon_dim) @@ (y_dim :> lat_dim))
            IN IF ds_ref_new.status # "ok" THEN ds_ref_new
               ELSE Ok(<<ds_ref_new.value, ds_ens>>)

InitMatch ==
    /\ pc = "call"
    /\ fn = "force_match_dimensions"
    /\ args \in {[ds_ref |-> r, ds_ens |-> e, ref_dims |-> rd, ens_dims |-> ed] :
                    r \in SizedGrids(MaxSize), e \in SizedGrids(MaxSize),
                    rd \in {<<"y", "x">>, <<"x", "y">>, <<"lat", "lon">>},
                    ed \in {<<"lat", "lon">>, <<"y", "x">>}}
    /\ out = NoResult

ForceMatchDimensions ==
    /\ pc = "call"
    /\ fn = "force_match_dimensions"
    /\ out' = force_match_dimensions(args.ds_ref, args.ds_ens,
                                     args.ref_dims, args.ens_dims)
    /\ pc' = "done"
    /\ UNCHANGED <<fn, args>>

NextMatch == ForceMatchDimensions

SpecMatch == InitMatch /\ [][NextMatch]_vars

MatchDone == pc = "done" /\ fn = "force_match_dimensions"

\* The two reference dimensions and the two ensemble dimensions exist and
\* have the same lengths, first with first and second with second.
SameLengths ==
    /\ \A i \in 1..2 : /\ args.ref_dims[i] \in DOMAIN args.ds_ref.sizes
                       /\ args.ens_dims[i] \in DOMAIN args.ds_ens.sizes
    /\ \A i \in 1..2 : args.ds_ref.sizes[args.ref_dims[i]]
                           = args.ds_ens.sizes[args.ens_dims[i]]

\* On success the reference dataset carries the ensemble's dimension names
\* with the ensemble's lengths and the ensemble dataset is the one passed.
Matched ==
    /\ out.status = "ok"
    /\ \A i \in 1..2 :
           /\ args.ens_dims[i] \in DOMAIN out.value[1].sizes
           /\ out.value[1].sizes[args.ens_dims[i]]
                  = args.ds_ens.sizes[args.ens_dims[i]]
    /\ out.value[2] = args.ds_ens

\* C11: force_match_dimensions succeeds exactly when the two reference
\* dimensions and the two ensemble dimensions have element-wise the same
\* lengths; on success the reference carries the ensemble's dimension names
\* with the same lengths and the ensemble is returned unchanged; on a
\* length difference or a missing dimension it raises its shape error and
\* returns nothing.
C11_ForceMatchExact ==
    MatchDone =>
        /\ SameLengths => Matched
        /\ ~SameLengths => out = Raise("ValueError", "force_match_dimensions")

-----------------------------------------------------------------------------
(* Grid-Alignment Checker: get_spatial_bounds, check_grid_alignment *)

\* Largest latitude of the grids whose alignment is checked.
MaxDeg == 2

\* All the values of an array, 1-D or 2-D (the sequence of its rows), in
\* the order a reduction over the whole array visits them.
RECURSIVE Ravel(_, _)
Ravel(array, ndim) ==
    IF ndim = 1 THEN array
    ELSE IF array = <<>> THEN <<>>
    ELSE Head(array) \o Ravel(Tail(array), ndim)

get_spatial_bounds(ds, lat_var, lon_var) ==
    IF lat_var \notin DOMAIN ds.variables \/ lon_var \notin DOMAIN ds.variables
    THEN Raise("KeyError", "get_spatial_bounds")
    ELSE LET lat == Ravel(ds.data[lat_var], Ndim(ds, lat_var))
             lon == Ravel(ds.data[lon_var], Ndim(ds, lon_var))
         IN Ok([lat_min |-> ArrayMin(lat), lat_max |-> ArrayMax(lat),
                lon_min |-> ArrayMin(lon), lon_max |-> ArrayMax(lon)])

\* check_grid_alignment with strict comparisons.
check_grid_alignment_strict(ds1, ds2, lat_var1, lon_var1, lat_var2, lon_var2) ==
    LET bounds1 == get_spatial_bounds(ds1, lat_var1, lon_var1)
        bounds2 == get_spatial_bounds(ds2, lat_var2, lon_var2)
    IN IF bounds1.status # "ok" THEN bounds1
       ELSE IF bounds2.status # "ok" THEN bounds2
       ELSE LET b1 == bounds1.value
                b2 == bounds2.value
                lat_overlap == b1.lat_min < b2.lat_max /\ b1.lat_max > b2.lat_min
                lon_overlap == b1.lon_min < b2.lon_max /\ b1.lon_max > b2.lon_min
            IN Ok(lat_overlap /\ lon_overlap)

check_grid_alignment(ds1, ds2, lat_var1, lon_var1, lat_var2, lon_var2) ==
    LET bounds1 == get_spatial_bounds(ds1, lat_var1, lon_var1)
        bounds2 == get_spatial_bounds(ds2, lat_var2, lon_var2)
    IN IF bounds1.status # "ok" THEN bounds1
       ELSE IF bounds2.status # "ok" THEN bounds2
       ELSE LET b1 == bounds1.value
                b2 == bounds2.value
                lat_overlap == b1.lat_min <= b2.lat_max /\ b1.lat_max >= b2.lat_min
                lon_overlap == b1.lon_min <= b2.lon_max /\ b1.lon_max >= b2.lon_min
            IN Ok(lat_overlap /\ lon_overlap)

\* The grids that are compared: rectilinear lat(lat), lon(lon) and
\* curvilinear lat2d(y, x), lon2d(y, x), latitudes drawn from lats; the
\* longitude of the curvilinear grids depends on the column only.
AlignDatasets(lats) ==
    {Rect1d(a, b) : a \in Axes(lats), b \in Axes(LonValues)}
    \cup {Curv2d(<<<<p[1], p[2]>>, <<p[2], p[1]>>>>, [i \in 1..2 |-> b], TRUE) :
             p \in lats \X lats, b \in [1..2 -> LonValues]}

\* The names a dataset's fields are asked for under: its own, or the
\* defaults of the parameters of check_grid_alignment.
AlignNames(ds, defaults) == {LatLonNames(ds), defaults}

InitAlign ==
    /\ pc = "call"
    /\ fn = "check_grid_alignment"
    /\ \E ds1 \in AlignDatasets(0..MaxDeg), ds2 \in AlignDatasets(0..MaxDeg) :
           \E n1 \in AlignNames(ds1, <<"latitude", "longitude">>),
              n2 \in AlignNames(ds2, <<"lat", "lon">>) :
               args = [ds1 |-> ds1, ds2 |-> ds2,
                       lat_var1 |-> n1[1], lon_var1 |-> n1[2],
                       lat_var2 |-> n2[1], lon_var2 |-> n2[2]]
    /\ out = NoResult

CheckGridAlignment ==
    /\ pc = "call"
    /\ fn = "check_grid_alignment"
    /\ out' = check_grid_alignment(args.ds1, args.ds2,
                                   args.lat_var1, args.lon_var1,
                                   args.lat_var2, args.lon_var2)
    /\ pc' = "done"
    /\ UNCHANGED <<fn, args>>

NextAlign == CheckGridAlignment

SpecAlign == InitAlign /\ [][NextAlign]_vars

\* The set of the values of a field of a dataset.
ValuesOf(ds, name) ==
    IF Ndim(ds, name) = 1 THEN Range(ds.data[name])
    ELSE UNION {Range(ds.data[name][i]) : i \in DOMAIN ds.data[name]}

\* The closed intervals [min A, max A] and [min B, max B] have a point in
\* common.
Intersect(A, B) ==
    \E v \in Least(A \cup B)..Greatest(A \cup B) :
        /\ Least(A) <= v /\ v <= Greatest(A)
        /\ Least(B) <= v /\ v <= Greatest(B)

AlignDone ==
    /\ pc = "done"
    /\ fn = "check_grid_alignment"
    /\ {args.lat_var1, args.lon_var1} \subseteq DOMAIN args.ds1.variables
    /\ {args.lat_var2, args.lon_var2} \subseteq DOMAIN args.ds2.variables

\* C12: for two datasets with latitude and longitude fields,
\* check_grid_alignment returns true exactly when their latitude extents
\* have a point in common and their longitude extents have a point in
\* common, a single shared boundary value included, and returns the same
\* with the two datasets (and their field names) swapped.
C12_ClosedOverlap ==
    AlignDone =>
        /\ out = Ok(/\ Intersect(ValuesOf(args.ds1, args.lat_var1),
                                 ValuesOf(args.ds2, args.lat_var2))
                    /\ Intersect(ValuesOf(args.ds1, args.lon_var1),
                                 ValuesOf(args.ds2, args.lon_var2)))
        /\ out = check_grid_alignment(args.ds2, args.ds1,
                                      args.lat_var2, args.lon_var2,
                                      args.lat_var1, args.lon_var1)

\* A curvilinear and a rectilinear grid whose latitude extents share one
\* boundary value only are reported as overlapping.
C12_Witness ==
    /\ AlignDone
    /\ args.lat_var1 = "lat2d"
    /\ args.lat_var2 = "lat"
    /\ Greatest(ValuesOf(args.ds1, "lat2d")) = Least(ValuesOf(args.ds2, "lat"))
    /\ Least(ValuesOf(args.ds1, "lat2d")) < Greatest(ValuesOf(args.ds2, "lat"))
    /\ out = Ok(TRUE)

-----------------------------------------------------------------------------
(* The library as a whole: one call of any of its functions *)

Init ==
    InitParse \/ InitUnify \/ InitAssemble \/ InitSubset \/ InitTime
        \/ InitMatch \/ InitAlign

Next ==
    NextParse \/ NextUnify \/ NextAssemble \/ NextSubset \/ NextTime
        \/ NextMatch \/ NextAlign

Spec == Init /\ [][Next]_vars

====
